---- MODULE Spec2Model ----
(***************************************************************************)
(* coop-members: the credential store public.members, the SECURITY DEFINER *)
(* functions register_member and login_member, and the row-level security  *)
(* policies keyed on the jwt.claims.* settings, as created by the          *)
(* migration that carries the is_admin column.                             *)
(***************************************************************************)
EXTENDS Integers, FiniteSets, Sequences, TLC

\* ------------------------------------------------------------------ bounds
\* greatest id the sequence members_id_seq hands out
MaxId == 3
\* number of database sessions that run register_member concurrently
MaxSessions == 2
\* number of UPDATE statements that change a row
MaxUpdates == 1
\* last tick of the clock that stamps and checks tokens
MaxTime == 3
\* the configured token lifetime, in ticks, when one is configured
MaxLifetime == 1
\* number of times the server process is started again
MaxRestarts == 1
\* number of signed tokens in existence
MaxJwts == 2
\* number of command-line arguments given to run-postgraphile.sh
MaxArgs == 2
\* number of times remove-recreate-db.sh is run
MaxRuns == 2

\* ------------------------------------------------------------- value sets
\* SQL NULL of a text argument or column
NULL == "<NULL>"

Ids == 1..MaxId
\* the salts gen_salt('bf') can draw
Salts == {1, 2}
Sessions == 1..MaxSessions

BootstrapEmail == "admin@example.com"
BootstrapPassword == "CHANGEME"

Emails == {BootstrapEmail, "alice@example.com", "Alice@example.com"}
Passwords == {BootstrapPassword, "secret123"}

\* ------------------------------------------------------ pgcrypto (hashing)
\* A text value of the password_hash column: a bcrypt string "$2a$06$" ++ salt
\* ++ digest (alg "bf"), any other text (alg "text"), or SQL NULL.
NullText == [alg |-> "null", salt |-> 0, key |-> ""]
InvalidSalt == [alg |-> "error", salt |-> 0, key |-> "invalid salt"]
PlainText(t) == [alg |-> "text", salt |-> 0, key |-> t]

\* gen_salt('bf'): a fresh salt setting, with no digest after it
gen_salt(s) == [alg |-> "bf", salt |-> s, key |-> ""]

\* a hash that does not mix the salt in
crypt_unsalted(password, setting) ==
  IF password = NULL \/ setting.alg = "null" THEN NullText
  ELSE [alg |-> "bf", salt |-> 0, key |-> password]

\* crypt(password, setting): STRICT, so NULL in gives NULL out; the algorithm
\* and the salt are read from the front of `setting` (a gen_salt result or a
\* stored hash). A setting without a known prefix is taken as a traditional
\* DES salt, and the result is a DES hash, never the setting itself; what
\* cannot serve as a salt at all raises "invalid salt".
crypt(password, setting) ==
  IF password = NULL \/ setting.alg = "null" THEN NullText
  ELSE IF setting.alg = "bf"
       THEN [alg |-> "bf", salt |-> setting.salt, key |-> password]
       ELSE IF setting.alg = "text"
            THEN [alg |-> "des", salt |-> 0, key |-> password]
            ELSE InvalidSalt

\* ------------------------------------------------------------------- state
VARIABLES
  members,   \* the rows of public.members
  seq,       \* the next value of members_id_seq (id SERIAL)
  tokens,    \* the jwt_token values signed and handed out so far
  pc,        \* per session: "idle", or "insert" between the two statements of register_member
  args,      \* per session: the arguments of the register_member call in progress
  nupd,      \* number of row-changing UPDATE statements so far
  last,      \* the last completed request and what its caller observed
  secret,    \* JWT_SECRET of the running process
  starts,    \* how many times the process has been started again
  now,       \* the clock
  jwts,      \* the signed tokens in existence
  verdict,   \* what the last run of the verify or the decode script printed
  out,       \* what the last run of migrate.sh or run-postgraphile.sh executed
  cluster,   \* the databases and roles of the PostgreSQL cluster
  rr         \* the run of remove-recreate-db.sh

dbvars == <<members, seq, tokens, pc, args, nupd, last>>
jwtvars == <<secret, starts, now, jwts, verdict>>
shvars == <<out, cluster, rr>>
vars == <<members, seq, tokens, pc, args, nupd, last, secret, starts, now, jwts, verdict,
          out, cluster, rr>>

\* ------------------------------------------------------------ jwt_token
NoToken == [member_id |-> 0, role |-> "none"]
jwt_token(member_id, role) == [member_id |-> member_id, role |-> role]

\* The request context PostGraphile derives from a verified bearer token
\* (jwt.claims.role, jwt.claims.member_id); a request without a token sets
\* neither.
Anonymous == [auth |-> FALSE, role |-> "none", member_id |-> 0]
Claims(tok) == [auth |-> TRUE, role |-> tok.role, member_id |-> tok.member_id]
Requests == {Anonymous} \cup {Claims(t) : t \in tokens}

\* ------------------------------------------------- row-level security (RLS)
\* current_setting(name, true): the setting, or SQL NULL when it is not set
current_setting(req, name) ==
  IF req.auth THEN [isnull |-> FALSE, v |-> req[name]]
  ELSE [isnull |-> TRUE, v |-> req[name]]

\* SQL three-valued logic
SqlEq(s, x) == IF s.isnull THEN "unknown" ELSE IF s.v = x THEN "true" ELSE "false"
SqlAnd(a, b) ==
  IF a = "false" \/ b = "false" THEN "false"
  ELSE IF a = "unknown" \/ b = "unknown" THEN "unknown" ELSE "true"

\* a SELECT policy that forgets the ownership test
member_select_any_row(req, row) == SqlEq(current_setting(req, "role"), "member")

member_select_own(req, row) ==
  SqlAnd(SqlEq(current_setting(req, "role"), "member"),
         SqlEq(current_setting(req, "member_id"), row.id))

member_update_own(req, row) ==
  SqlAnd(SqlEq(current_setting(req, "role"), "member"),
         SqlEq(current_setting(req, "member_id"), row.id))

\* a SELECT policy that looks the admin flag up in the subject's row instead
\* of reading the role claim
admin_select_by_flag(req, row) ==
  IF req.auth /\ \E m \in members : m.id = req.member_id /\ m.is_admin
  THEN "true" ELSE "false"

\* a SELECT policy open to every request: USING (true)
select_all_members(req, row) == "true"

admin_select_all(req, row) == SqlEq(current_setting(req, "role"), "admin")

\* an UPDATE policy that lets an admin touch its own row only
admin_update_own(req, row) ==
  SqlAnd(SqlEq(current_setting(req, "role"), "admin"),
         SqlEq(current_setting(req, "member_id"), row.id))

admin_update_all(req, row) == SqlEq(current_setting(req, "role"), "admin")

\* Permissive policies of one command are OR-ed; a row passes when the result
\* is true (not false, not unknown).
SelectVisible(req, row) ==
  member_select_own(req, row) = "true" \/ admin_select_all(req, row) = "true"

\* USING of the UPDATE policies (old row) and WITH CHECK (new row)
UpdateUsing(req, row) ==
  member_update_own(req, row) = "true" \/ admin_update_all(req, row) = "true"

UpdateWithCheck(req, row) ==
  member_update_own(req, row) = "true" \/ admin_update_all(req, row) = "true"

\* ------------------------------------------------------------ observations
NoError == "ok"
EmailExists == "A member with this email already exists"
NoMemberFound == "No member found with that email"
InvalidPassword == "Invalid password"
NotNullViolation == "null value violates not-null constraint"
PkeyViolation == "duplicate key value violates unique constraint members_pkey"
EmailKeyViolation == "duplicate key value violates unique constraint members_email_key"
RlsViolation == "new row violates row-level security policy for table members"
InvalidSaltError == "invalid salt"

Observation(op, req, target, email, password, err, token, ids) ==
  [op |-> op, role |-> req.role, member_id |-> req.member_id, auth |-> req.auth,
   target |-> target, email |-> email, password |-> password,
   err |-> err, token |-> token, ids |-> ids, nodes |-> {}]

NoObservation == Observation("none", Anonymous, 0, NULL, NULL, NoError, NoToken, {})

\* ------------------------------------------------------- signed tokens (JWT)
\* JWT_SECRET=${JWT_SECRET:-SUPER_SECRET_TOKEN}: the default, and a value the
\* environment may supply instead
JWT_SECRET == "SUPER_SECRET_TOKEN"
Secrets == {JWT_SECRET, "ANOTHER_SECRET"}
Roles == {"member", "admin"}
Times == 1..MaxTime
\* no exp claim: jwt.sign without expiresIn
NoExp == 0
Lifetimes == {NoExp, MaxLifetime}

Payload(member_id, role, iat, exp) ==
  [member_id |-> member_id, role |-> role, iat |-> iat, exp |-> exp]
NoPayload == Payload(0, "none", 0, NoExp)

\* the HMAC of a payload under a key: equal for equal key and payload only
HS256(key, payload) == [key |-> key, over |-> payload]

\* jwt.sign(payload, secret[, {expiresIn}]): iat = now, exp = now + expiresIn
sign(member_id, role, key, t, lifetime) ==
  LET body == Payload(member_id, role, t, IF lifetime = NoExp THEN NoExp ELSE t + lifetime)
  IN [malformed |-> FALSE, payload |-> body, sig |-> HS256(key, body)]

\* a string that is not header.payload.signature
Malformed == [malformed |-> TRUE, payload |-> NoPayload, sig |-> HS256("", NoPayload)]

\* a token whose payload was edited after signing
\* (another role, or the bootstrap admin's id as subject)
Altered(jwt) ==
  {[jwt EXCEPT !.payload.role = r] : r \in Roles \ {jwt.payload.role}}
  \cup {[jwt EXCEPT !.payload.member_id = i] : i \in {1} \ {jwt.payload.member_id}}

MalformedError == "JsonWebTokenError: jwt malformed"
SignatureError == "JsonWebTokenError: invalid signature"
ExpiredError == "TokenExpiredError: jwt expired"
NoTokenFound == "No JWT token found in the input JSON."
DecodeFailed == "Failed to decode JWT token."

Thrown(err) == [ok |-> FALSE, payload |-> NoPayload, err |-> err]
Returned(payload) == [ok |-> TRUE, payload |-> payload, err |-> ""]

\* a verification that does not look at exp
verify_ignoring_exp(jwt, key, t) ==
  IF jwt.malformed THEN Thrown(MalformedError)
  ELSE IF jwt.sig # HS256(key, jwt.payload) THEN Thrown(SignatureError)
  ELSE Returned(jwt.payload)

\* decode(token): the payload of any well-formed token, no signature check
decode(jwt) == IF jwt.malformed THEN Thrown(DecodeFailed) ELSE Returned(jwt.payload)

\* a verification that only decodes
verify_by_decode(jwt, key, t) == decode(jwt)

\* verify(token, JWT_SECRET): "if invalid or expired, verify() throws"
verify(jwt, key, t) ==
  IF jwt.malformed THEN Thrown(MalformedError)
  ELSE IF jwt.sig # HS256(key, jwt.payload) THEN Thrown(SignatureError)
  ELSE IF jwt.payload.exp # NoExp /\ t >= jwt.payload.exp THEN Thrown(ExpiredError)
  ELSE Returned(jwt.payload)

\* what a script run shows: exit status, the payload on stdout, the message
\* on stderr
Verdict(script, jwt, r) ==
  [script |-> script, jwt |-> jwt, exit |-> IF r.ok THEN 0 ELSE 1,
   payload |-> r.payload, err |-> r.err]
NoVerdict == Verdict("none", Malformed, Returned(NoPayload))

\* ------------------------------------------------------------ shell scripts
\* an environment variable that is unset (or set to the empty string)
Unset == ""
\* ${VAR:-default}
Default(value, default) == IF value = Unset THEN default ELSE value

\* the environment a script is started in; postgres says whether the
\* operating system has a user 'postgres'
UnsetEnv ==
  [GITHUB_ACTIONS |-> Unset, NEON_USER |-> Unset, NEON_PASSWORD |-> Unset,
   NEON_HOST |-> Unset, NEON_DB |-> Unset, SSLMODE |-> Unset,
   LOCAL_USER |-> Unset, LOCAL_PASSWORD |-> Unset, LOCAL_DB |-> Unset,
   LOCAL_SOCKET_PATH |-> Unset, SSL_MODE |-> Unset, DBPASS |-> Unset,
   postgres |-> FALSE]

\* "$1"
FirstArg(argv) == IF Len(argv) >= 1 THEN argv[1] ELSE Unset

\* what the last run of migrate.sh or run-postgraphile.sh executed
NoOutput ==
  [script |-> "none", argv |-> <<>>, env |-> UnsetEnv, mode |-> "none",
   config |-> "", conn |-> <<>>, graphiql |-> "", positional |-> <<>>]

\* --- migrate.sh
MigrateArgvs == {<<>>, <<"neon">>, <<"gha">>, <<"local">>, <<"staging">>, <<"">>}
MigrateEnvs == {[UnsetEnv EXCEPT !.GITHUB_ACTIONS = g] : g \in {Unset, "true", "false"}}

\* a choice of config that does not look at GITHUB_ACTIONS
CONFIG_by_argument(MODE, IS_GHA) ==
  IF MODE = "neon" THEN ".gmrc.neon.js"
  ELSE IF MODE = "gha" THEN ".gmrc.gha"
  ELSE ".gmrc"

CONFIG(MODE, IS_GHA) ==
  IF MODE = "neon" THEN ".gmrc.neon.js"
  ELSE IF MODE = "gha" THEN ".gmrc.gha"
  ELSE IF MODE = "local" THEN ".gmrc"
  ELSE IF MODE = Unset /\ IS_GHA = "true" THEN ".gmrc.gha"
  ELSE ".gmrc"

\* --- run-postgraphile.sh
PostgraphileArgs == {"--use-neon", "neon", "--disable-graphiql", "--watch"}
PostgraphileArgvs == UNION {[1..n -> PostgraphileArgs] : n \in 0..MaxArgs}
PostgraphileEnvs ==
  {[UnsetEnv EXCEPT !.NEON_USER = u, !.NEON_PASSWORD = p, !.NEON_HOST = h,
                    !.NEON_DB = d, !.SSLMODE = s, !.LOCAL_PASSWORD = l] :
     u \in {Unset, "neondb_owner"}, p \in {Unset, "npg_pw"},
     h \in {Unset, "ep.neon.tech"}, d \in {Unset, "neondb"},
     s \in {Unset, "verify-full"}, l \in {Unset, "localpw"}}

\* only the option selects Neon, the bare word does not
USE_NEON_option_only(argv) ==
  IF \E i \in 1..Len(argv) : argv[i] = "--use-neon" THEN 1 ELSE 0

USE_NEON(argv) ==
  IF \E i \in 1..Len(argv) : argv[i] \in {"--use-neon", "neon"} THEN 1 ELSE 0

DISABLE_GRAPHIQL(argv) ==
  IF \E i \in 1..Len(argv) : argv[i] = "--disable-graphiql" THEN 1 ELSE 0

IsPositional(arg) == arg \notin {"--use-neon", "neon", "--disable-graphiql"}
POSITIONAL_ARGS(argv) == SelectSeq(argv, IsPositional)

GRAPHIQL_OPTION(argv) ==
  IF DISABLE_GRAPHIQL(argv) = 1 THEN "--disable-graphiql" ELSE "--enhance-graphiql"

\* the connection strings, as the pieces the echo puts together
buildNeonConnectionString(env) ==
  LET neonPass == Default(env.NEON_PASSWORD, "")
      neonHost == Default(env.NEON_HOST, "127.0.0.1")
      neonDb == Default(env.NEON_DB, "coop-members")
      neonSslMode == Default(env.SSLMODE, "require")
      neonUser == "auth_user"
  IN <<"postgres://", neonUser, ":", neonPass, "@", neonHost, ":5432/", neonDb,
       "?sslmode=", neonSslMode>>

buildLocalConnectionString(env) ==
  LET localUser == Default(env.LOCAL_USER, "auth_user")
      localPass == Default(env.LOCAL_PASSWORD, "")
      localDb == Default(env.LOCAL_DB, "coop-members")
      socketPath == Default(env.LOCAL_SOCKET_PATH, "/var/run/postgresql")
      sslMode == Default(env.SSL_MODE, "disable")
  IN IF localPass # ""
     THEN <<"postgres://", localUser, ":", localPass, "@/", localDb, "?host=",
            socketPath, "&sslmode=", sslMode>>
     ELSE <<"postgres://", localUser, "@/", localDb, "?host=", socketPath,
            "&sslmode=", sslMode>>

\* --- remove-recreate-db.sh
DB_NAME == "coop-members"
MIGRATOR_ROLE == "migrator"
AUTH_ROLE == "auth_user"
APP_ROLE == "app_user"
SHADOW_DB == "coop-members-shadow"

RecreateArgvs == {<<>>, <<"neon">>, <<"local">>}
NeonEnv ==
  [UnsetEnv EXCEPT !.NEON_USER = "neondb_owner", !.NEON_PASSWORD = "npg_pw",
                   !.NEON_HOST = "ep.neon.tech", !.NEON_DB = "neondb",
                   !.SSLMODE = "require"]
RecreateEnvs ==
  {[e EXCEPT !.GITHUB_ACTIONS = g, !.postgres = u] :
     e \in {NeonEnv, [NeonEnv EXCEPT !.NEON_PASSWORD = Unset]},
     g \in {Unset, "true"}, u \in BOOLEAN}

\* the roles that can run the administrative statements
Superusers == {"postgres", "neondb_owner"}

\* a database cluster: its databases, its roles, the role memberships and the
\* privileges granted on (or inside) a database
Role(name, login, createdb, password) ==
  [name |-> name, login |-> login, createdb |-> createdb, password |-> password]
FreshCluster ==
  [databases |-> {[name |-> "postgres", owner |-> "postgres"]},
   roles |-> {}, members |-> {}, privs |-> {}]

RoleNames(c) == {r.name : r \in c.roles}
DatabaseNames(c) == {d.name : d \in c.databases}

\* psql's exit status and the cluster it leaves
SqlOk(c) == [ok |-> TRUE, c |-> c]
SqlError(c) == [ok |-> FALSE, c |-> c]

DROP_DATABASE_IF_EXISTS(c, name) ==
  SqlOk([c EXCEPT !.databases = {d \in @ : d.name # name},
                  !.privs = {p \in @ : p.db # name}])

\* a role that owns a database or holds a privilege cannot be dropped
DROP_ROLE_IF_EXISTS(c, name) ==
  IF name \notin RoleNames(c) THEN SqlOk(c)
  ELSE IF \/ \E d \in c.databases : d.owner = name
          \/ \E p \in c.privs : p.role = name
       THEN SqlError(c)
       ELSE SqlOk([c EXCEPT !.roles = {r \in @ : r.name # name},
                            !.members = {m \in @ : m.role # name /\ m.member # name}])

CREATE_ROLE(c, role) ==
  IF role.name \in RoleNames(c) \cup Superusers THEN SqlError(c)
  ELSE SqlOk([c EXCEPT !.roles = @ \cup {role}])

CREATE_DATABASE(c, name, owner) ==
  IF name \in DatabaseNames(c) \/ owner \notin RoleNames(c) \cup Superusers
  THEN SqlError(c)
  ELSE SqlOk([c EXCEPT !.databases = @ \cup {[name |-> name, owner |-> owner]}])

REASSIGN_OWNED(c, role, to) ==
  IF role \notin RoleNames(c) THEN SqlError(c)
  ELSE SqlOk([c EXCEPT !.databases =
                {IF d.owner = role THEN [d EXCEPT !.owner = to] ELSE d : d \in @}])

\* run in database postgres: privileges on databases are shared objects
DROP_OWNED(c, role) ==
  IF role \notin RoleNames(c) THEN SqlError(c)
  ELSE SqlOk([c EXCEPT !.privs = {p \in @ : ~(p.role = role /\ p.priv = "CONNECT")}])

REVOKE_ALL_ON_DATABASE(c, db, role) ==
  IF db \notin DatabaseNames(c) \/ role \notin RoleNames(c) THEN SqlError(c)
  ELSE SqlOk([c EXCEPT !.privs = {p \in @ : ~(p.role = role /\ p.db = db /\ p.priv = "CONNECT")}])

GRANT_ON(c, priv, db, role) ==
  IF db \notin DatabaseNames(c) \/ role \notin RoleNames(c) THEN SqlError(c)
  ELSE SqlOk([c EXCEPT !.privs = @ \cup {[role |-> role, priv |-> priv, db |-> db]}])

GRANT_ROLE(c, role, member) ==
  IF {role, member} \subseteq RoleNames(c)
  THEN SqlOk([c EXCEPT !.members = @ \cup {[role |-> role, member |-> member]}])
  ELSE SqlError(c)

\* Step 1: the mode, or "error" when the script exits at once
DetermineMode(MODE, env) ==
  IF MODE = "neon"
  THEN IF Unset \in {env.NEON_USER, env.NEON_PASSWORD, env.NEON_HOST, env.NEON_DB, env.SSLMODE}
       THEN "error" ELSE "neon"
  ELSE IF env.GITHUB_ACTIONS = "true" THEN "gha"
  ELSE IF env.postgres THEN "local"
  ELSE "error"

PSQL_USER(mode, env) == IF mode = "neon" THEN env.NEON_USER ELSE "postgres"
PSQL_PASS(mode, env) ==
  IF mode = "neon" THEN env.NEON_PASSWORD
  ELSE IF mode = "gha" THEN Default(env.DBPASS, "postgres")
  ELSE ""

do_drop_db(c, mode, env) == DROP_DATABASE_IF_EXISTS(c, DB_NAME)

do_drop_shadow_db(c, mode, env) ==
  IF mode = "local" THEN DROP_DATABASE_IF_EXISTS(c, SHADOW_DB) ELSE SqlOk(c)

ReassignAndDrop(r, role) ==
  IF r.ok /\ role \in RoleNames(r.c)
  THEN LET r1 == REASSIGN_OWNED(r.c, role, "postgres")
       IN IF r1.ok THEN DROP_OWNED(r1.c, role) ELSE r1
  ELSE r

do_local_reassign(c, mode, env) ==
  IF mode = "local"
  THEN ReassignAndDrop(ReassignAndDrop(ReassignAndDrop(SqlOk(c), MIGRATOR_ROLE), AUTH_ROLE), APP_ROLE)
  ELSE SqlOk(c)

\* the roles are left in place
do_drop_roles_skipped(c, mode, env) == SqlOk(c)

\* set -e: a statement runs only if the one before succeeded
do_drop_roles(c, mode, env) ==
  LET r1 == DROP_ROLE_IF_EXISTS(c, MIGRATOR_ROLE)
      r2 == IF r1.ok THEN DROP_ROLE_IF_EXISTS(r1.c, AUTH_ROLE) ELSE r1
  IN IF r2.ok THEN DROP_ROLE_IF_EXISTS(r2.c, APP_ROLE) ELSE r2

do_create_migrator_role_local(c, mode, env) ==
  CREATE_ROLE(c, Role(MIGRATOR_ROLE, TRUE, TRUE, ""))
do_create_migrator_role_neon(c, mode, env) == SqlOk(c)

do_create_db_owned_by_migrator(c, mode, env) == CREATE_DATABASE(c, DB_NAME, MIGRATOR_ROLE)
do_create_db_owned_by_neon_admin(c, mode, env) ==
  CREATE_DATABASE(c, DB_NAME, PSQL_USER(mode, env))

do_create_app_user(c, mode, env) ==
  IF mode = "neon"
  THEN CREATE_ROLE(c, Role(APP_ROLE, FALSE, FALSE, PSQL_PASS(mode, env)))
  ELSE CREATE_ROLE(c, Role(APP_ROLE, FALSE, FALSE, ""))

do_create_auth_user(c, mode, env) ==
  IF mode = "neon"
  THEN CREATE_ROLE(c, Role(AUTH_ROLE, TRUE, FALSE, PSQL_PASS(mode, env)))
  ELSE CREATE_ROLE(c, Role(AUTH_ROLE, TRUE, FALSE, ""))

do_grant_min_privs_to_app_user(c, mode, env) ==
  LET r1 == REVOKE_ALL_ON_DATABASE(c, DB_NAME, APP_ROLE)
      r2 == IF r1.ok THEN GRANT_ON(r1.c, "CONNECT", DB_NAME, APP_ROLE) ELSE r1
  IN IF r2.ok THEN GRANT_ON(r2.c, "USAGE", DB_NAME, APP_ROLE) ELSE r2

do_grant_appuser_to_authuser(c, mode, env) == GRANT_ROLE(c, APP_ROLE, AUTH_ROLE)

do_verify(c, mode, env) ==
  LET roles_to_check == {AUTH_ROLE, APP_ROLE}
                          \cup (IF mode # "neon" THEN {MIGRATOR_ROLE} ELSE {})
  IN IF roles_to_check \subseteq RoleNames(c) /\ DB_NAME \in DatabaseNames(c)
     THEN SqlOk(c) ELSE SqlError(c)

do_create_shadow_db(c, mode, env) ==
  IF mode = "local" THEN CREATE_DATABASE(c, SHADOW_DB, MIGRATOR_ROLE) ELSE SqlOk(c)

\* the state of remove-recreate-db.sh: where the run is, its mode and
\* environment, how many runs there were, and the mode and resulting cluster
\* of the run just before this one when that run succeeded
NoRun == [mode |-> "none", cluster |-> FreshCluster]
NotRunning ==
  [pc |-> "idle", mode |-> "none", env |-> UnsetEnv, runs |-> 0, prev |-> NoRun]

\* ------------------------------------------------------------------- Init
NoArgs == [first_name |-> NULL, last_name |-> NULL, email |-> NULL, password |-> NULL]

Member(id, first_name, last_name, email, password_hash, is_admin) ==
  [id |-> id, first_name |-> first_name, last_name |-> last_name,
   email |-> email, password_hash |-> password_hash, is_admin |-> is_admin]

\* the migration's bootstrap admin row; it takes the sequence's first value,
\* and its salt is one of the salts (which one makes no difference)
BootstrapAdmin ==
  Member(1, "Super", "Admin", BootstrapEmail, crypt(BootstrapPassword, gen_salt(1)), TRUE)

Init ==
  /\ members = {BootstrapAdmin}
  /\ seq = 2
  /\ tokens = {}
  /\ pc = [p \in Sessions |-> "idle"]
  /\ args = [p \in Sessions |-> NoArgs]
  /\ nupd = 0
  /\ last = NoObservation
  /\ secret = JWT_SECRET
  /\ starts = 0
  /\ now = 1
  /\ jwts = {}
  /\ verdict = NoVerdict
  /\ out = NoOutput
  /\ cluster = FreshCluster
  /\ rr = NotRunning

\* ---------------------------------------------------------- register_member
\* the argument tuples the callers try: complete ones, and ones with an empty
\* or a missing (NULL) field
RegisterInputs ==
  [first_name : {"Alice"}, last_name : {"Doe"}, email : Emails, password : {"secret123"}]
  \cup {[first_name |-> "", last_name |-> "Doe", email |-> "alice@example.com", password |-> "secret123"],
        [first_name |-> "Alice", last_name |-> "Doe", email |-> "alice@example.com", password |-> NULL]}

\* a register_member without its existence check
EmailTakenUnchecked(in_email) == FALSE

\* a comparison that folds letter case, as lower(email) = lower(in_email) would
EmailTakenIgnoringCase(in_email) ==
  \E r \in members :
    \/ r.email = in_email
    \/ {r.email, in_email} = {"alice@example.com", "Alice@example.com"}

\* EXISTS(SELECT 1 FROM public.members WHERE email = in_email)
EmailTaken(in_email) == \E r \in members : r.email = in_email

\* The constraints of CREATE TABLE public.members on a row that is about to be
\* stored beside the rows `others`: NOT NULL first, then the primary key, then
\* UNIQUE (email).
NotNullError(row) ==
  IF \/ row.first_name = NULL \/ row.last_name = NULL \/ row.email = NULL
     \/ row.password_hash = NullText
  THEN NotNullViolation ELSE NoError

\* a table whose email column lost its UNIQUE constraint
UniqueErrorPkeyOnly(row, others) ==
  IF \E r \in others : r.id = row.id THEN PkeyViolation ELSE NoError

UniqueError(row, others) ==
  IF \E r \in others : r.id = row.id THEN PkeyViolation
  ELSE IF \E r \in others : r.email = row.email THEN EmailKeyViolation
  ELSE NoError

ConstraintError(row, others) ==
  IF NotNullError(row) # NoError THEN NotNullError(row) ELSE UniqueError(row, others)

\* the row register_member inserts: id from the sequence, is_admin by default
NewMember(a, id, s) ==
  Member(id, a.first_name, a.last_name, a.email, crypt(a.password, gen_salt(s)), FALSE)

\* the number of calls that have passed the existence check and not yet inserted
InFlight == Cardinality({p \in Sessions : pc[p] = "insert"})

\* Statement 1 of register_member: the existence check.
RegisterCheck(p, a) ==
  /\ last.op = "none"
  /\ pc[p] = "idle"
  /\ seq + InFlight <= MaxId
  /\ IF EmailTaken(a.email)
     THEN /\ last' = Observation("register", Anonymous, 0, a.email, a.password,
                                 EmailExists, NoToken, {})
          /\ UNCHANGED <<pc, args>>
     ELSE /\ pc' = [pc EXCEPT ![p] = "insert"]
          /\ args' = [args EXCEPT ![p] = a]
          /\ UNCHANGED last
  /\ UNCHANGED <<members, seq, tokens, nupd>>
  /\ UNCHANGED <<jwtvars, shvars>>

\* a register_member that builds and returns its payload from the sequence
\* value even when the INSERT was refused
RegisterInsertAlwaysReturns(p, s) ==
  /\ last.op = "none"
  /\ pc[p] = "insert"
  /\ LET a == args[p]
         row == NewMember(a, seq, s)
         err == ConstraintError(row, members)
         tok == jwt_token(seq, "member")
     IN /\ seq' = seq + 1
        /\ members' = IF err = NoError THEN members \cup {row} ELSE members
        /\ tokens' = tokens \cup {tok}
        /\ last' = Observation("register", Anonymous, 0, a.email, a.password,
                               NoError, tok, {row.id})
  /\ pc' = [pc EXCEPT ![p] = "idle"]
  /\ args' = [args EXCEPT ![p] = NoArgs]
  /\ UNCHANGED nupd
  /\ UNCHANGED <<jwtvars, shvars>>

\* Statement 2 of register_member: the INSERT ... RETURNING id, and the
\* jwt_token built from it. nextval is taken before the constraints are checked.
RegisterInsert(p, s) ==
  /\ last.op = "none"
  /\ pc[p] = "insert"
  /\ LET a == args[p]
         row == NewMember(a, seq, s)
         err == ConstraintError(row, members)
         tok == jwt_token(seq, "member")
     IN /\ seq' = seq + 1
        /\ IF err = NoError
           THEN /\ members' = members \cup {row}
                /\ tokens' = tokens \cup {tok}
                /\ last' = Observation("register", Anonymous, 0, a.email, a.password,
                                       NoError, tok, {row.id})
           ELSE /\ UNCHANGED <<members, tokens>>
                /\ last' = Observation("register", Anonymous, 0, a.email, a.password,
                                       err, NoToken, {})
  /\ pc' = [pc EXCEPT ![p] = "idle"]
  /\ args' = [args EXCEPT ![p] = NoArgs]
  /\ UNCHANGED nupd
  /\ UNCHANGED <<jwtvars, shvars>>

\* The insert script: psql, connected as the database owner, runs
\* INSERT INTO members (first_name, last_name, email) VALUES ('John', 'Doe', e)
\* with e made from the clock. The owner is subject neither to the REVOKE nor
\* to row-level security; password_hash gets no value.
ScriptEmail == "john.doe.1@example.com"

InsertScript ==
  /\ last.op = "none"
  /\ seq + InFlight <= MaxId
  /\ LET row == Member(seq, "John", "Doe", ScriptEmail, NullText, FALSE)
         err == ConstraintError(row, members)
     IN /\ seq' = seq + 1
        /\ members' = IF err = NoError THEN members \cup {row} ELSE members
        /\ last' = Observation("insert", Anonymous, 0, ScriptEmail, NULL, err, NoToken,
                               IF err = NoError THEN {row.id} ELSE {})
  /\ UNCHANGED <<tokens, pc, args, nupd>>
  /\ UNCHANGED <<jwtvars, shvars>>

\* ------------------------------------------------------------- login_member
LoginPasswords == Passwords \cup {NULL}

\* a login that issues role 'member' to every account
login_member_role_member(in_email, in_password) ==
  LET found == {r \in members : r.email = in_email}
  IN IF found = {} THEN [err |-> NoMemberFound, token |-> NoToken]
     ELSE LET m == CHOOSE r \in found : TRUE
              c == crypt(in_password, m.password_hash)
          IN IF c = InvalidSalt THEN [err |-> InvalidSaltError, token |-> NoToken]
             ELSE IF c # NullText /\ c # m.password_hash
                  THEN [err |-> InvalidPassword, token |-> NoToken]
                  ELSE [err |-> NoError, token |-> jwt_token(m.id, "member")]

login_member(in_email, in_password) ==
  LET found == {r \in members : r.email = in_email}
  IN IF found = {} THEN [err |-> NoMemberFound, token |-> NoToken]
     ELSE LET m == CHOOSE r \in found : TRUE
              c == crypt(in_password, m.password_hash)
          IN IF c = InvalidSalt THEN [err |-> InvalidSaltError, token |-> NoToken]
             \* IF c <> m.password_hash: a NULL comparison does not take the branch
             ELSE IF c # NullText /\ c # m.password_hash
                  THEN [err |-> InvalidPassword, token |-> NoToken]
                  ELSE [err |-> NoError,
                        token |-> jwt_token(m.id, IF m.is_admin THEN "admin" ELSE "member")]

\* a login that stores a fresh hash of the password it was given
LoginRehashing(in_email, in_password) ==
  /\ last.op = "none"
  /\ LET r == login_member(in_email, in_password)
     IN /\ tokens' = IF r.err = NoError THEN tokens \cup {r.token} ELSE tokens
        /\ members' = IF r.err = NoError
                      THEN {IF m.email = in_email
                            THEN [m EXCEPT !.password_hash = crypt(in_password, gen_salt(2))]
                            ELSE m : m \in members}
                      ELSE members
        /\ last' = Observation("login", Anonymous, 0, in_email, in_password,
                               r.err, r.token, {})
  /\ UNCHANGED <<seq, pc, args, nupd>>
  /\ UNCHANGED <<jwtvars, shvars>>

Login(in_email, in_password) ==
  /\ last.op = "none"
  /\ LET r == login_member(in_email, in_password)
     IN /\ tokens' = IF r.err = NoError THEN tokens \cup {r.token} ELSE tokens
        /\ last' = Observation("login", Anonymous, 0, in_email, in_password,
                               r.err, r.token, {})
  /\ UNCHANGED <<members, seq, pc, args, nupd>>
  /\ UNCHANGED <<jwtvars, shvars>>

\* ------------------------------------------------------- requests on rows
\* allMembers: SELECT * FROM public.members under the request's claims; a
\* query by id or by email returns the rows of this result that match
SelectRows(req) == {r \in members : SelectVisible(req, r)}

\* the fields of the GraphQL type Member and the column each one reads
MemberFields == {"id", "firstName", "lastName", "email", "passwordHash"}
Column(field) ==
  CASE field = "id" -> "id"
    [] field = "firstName" -> "first_name"
    [] field = "lastName" -> "last_name"
    [] field = "email" -> "email"
    [] field = "passwordHash" -> "password_hash"

\* the selection set of the GetAllMembers document, and the whole type
GetAllMembersFields == {"id", "firstName", "lastName"}
Selections == {GetAllMembersFields, MemberFields}

\* one element of allMembers.nodes
Node(row, fields) == [f \in fields |-> row[Column(f)]]

Select(req, fields) ==
  /\ last.op = "none"
  /\ last' = [Observation("select", req, 0, NULL, NULL, NoError, NoToken,
                          {r.id : r \in SelectRows(req)})
                EXCEPT !.nodes = {Node(r, fields) : r \in SelectRows(req)}]
  /\ UNCHANGED <<members, seq, tokens, pc, args, nupd>>
  /\ UNCHANGED <<jwtvars, shvars>>

\* UPDATE public.members SET col = val WHERE id = target
UpdateColumns == {"first_name", "email", "password_hash", "is_admin", "id"}

UpdateValues(col) ==
  CASE col = "first_name" -> {"Alicia"}
    [] col = "email" -> Emails
    [] col = "password_hash" -> {PlainText("secret123"), crypt("secret123", gen_salt(1))}
    [] col = "is_admin" -> BOOLEAN
    [] col = "id" -> Ids

\* an UPDATE whose rows are not filtered by the policies, so that a row of
\* another subject reaches WITH CHECK and is refused with an error
UpdateRowsWhereOnly(req, target) == {r \in members : r.id = target}

\* the rows the statement may touch: WHERE, the SELECT policies (the WHERE
\* clause reads the row) and USING of the UPDATE policies
UpdateRows(req, target) ==
  {r \in members : r.id = target /\ SelectVisible(req, r) /\ UpdateUsing(req, r)}

\* an UPDATE that skips the table's constraints
UpdateErrorRlsOnly(req, old, new) ==
  IF ~UpdateWithCheck(req, new) THEN RlsViolation ELSE NoError

UpdateError(req, old, new) ==
  IF ~UpdateWithCheck(req, new) THEN RlsViolation
  ELSE ConstraintError(new, members \ {old})

UpdateRow(req, target, old, col, val) ==
  LET new == [old EXCEPT ![col] = val]
      err == UpdateError(req, old, new)
  IN IF err # NoError
     THEN /\ last' = Observation("update", req, target, NULL, NULL, err, NoToken, {})
          /\ UNCHANGED <<members, nupd>>
     ELSE /\ new = old \/ nupd < MaxUpdates
          /\ members' = (members \ {old}) \cup {new}
          /\ nupd' = IF new = old THEN nupd ELSE nupd + 1
          /\ last' = Observation("update", req, target, NULL, NULL, NoError,
                                 NoToken, {old.id})

\* zero rows match: "UPDATE 0", no error, whatever the column and the value
Update(req, target) ==
  /\ last.op = "none"
  /\ LET rows == UpdateRows(req, target)
     IN IF rows = {}
        THEN /\ last' = Observation("update", req, target, NULL, NULL, NoError, NoToken, {})
             /\ UNCHANGED <<members, nupd>>
        ELSE \E col \in UpdateColumns : \E val \in UpdateValues(col) :
               UpdateRow(req, target, CHOOSE r \in rows : TRUE, col, val)
  /\ UNCHANGED <<seq, tokens, pc, args>>
  /\ UNCHANGED <<jwtvars, shvars>>

\* The response leaves the server, which keeps no record of it.
Respond ==
  /\ last.op # "none"
  /\ last' = NoObservation
  /\ UNCHANGED <<members, seq, tokens, pc, args, nupd>>
  /\ UNCHANGED <<jwtvars, shvars>>

\* -------------------------------------------------------------------- Next
\* Beside the other requests one register_member call is in progress at a
\* time; SpecRegister below runs them concurrently.
MainSessions == {1}

Next ==
  \/ \E p \in MainSessions, a \in RegisterInputs : RegisterCheck(p, a)
  \/ \E p \in MainSessions, s \in Salts : RegisterInsert(p, s)
  \/ \E e \in Emails, pw \in LoginPasswords : Login(e, pw)
  \/ \E req \in Requests, fields \in Selections : Select(req, fields)
  \/ \E req \in Requests, target \in Ids : Update(req, target)
  \/ InsertScript
  \/ Respond

Spec == Init /\ [][Next]_vars

\* concurrent register_member calls alone
NextRegister ==
  \/ \E p \in Sessions, a \in RegisterInputs : RegisterCheck(p, a)
  \/ \E p \in Sessions, s \in Salts : RegisterInsert(p, s)
  \/ Respond

SpecRegister == Init /\ [][NextRegister]_vars

\* the two functions that handle passwords, register_member and login_member
NextAccounts ==
  \/ \E p \in MainSessions, a \in RegisterInputs : RegisterCheck(p, a)
  \/ \E p \in MainSessions, s \in Salts : RegisterInsert(p, s)
  \/ \E e \in Emails, pw \in LoginPasswords : Login(e, pw)
  \/ Respond

SpecAccounts == Init /\ [][NextAccounts]_vars

\* ------------------------------------------------- issuing and verifying
\* the jwt_token value that gets signed: the first registered member's
SignPayloads == {jwt_token(2, "member")}

\* PostGraphile signs the jwt_token a mutation returned with --jwt-secret
ServerSign(tok, lifetime) ==
  /\ verdict.script = "none"
  /\ Cardinality(jwts) < MaxJwts
  /\ jwts' = jwts \cup {sign(tok.member_id, tok.role, secret, now, lifetime)}
  /\ UNCHANGED <<secret, starts, now, verdict>>
  /\ UNCHANGED <<dbvars, shvars>>

\* gen-token.ts: jwt.sign({member_id: 1, role: 'member'}, 'SUPER_SECRET_TOKEN')
GenToken ==
  /\ verdict.script = "none"
  /\ Cardinality(jwts) < MaxJwts
  /\ jwts' = jwts \cup {sign(1, "member", JWT_SECRET, now, NoExp)}
  /\ UNCHANGED <<secret, starts, now, verdict>>
  /\ UNCHANGED <<dbvars, shvars>>

\* time passes
Tick ==
  /\ verdict.script = "none"
  /\ now < MaxTime
  /\ now' = now + 1
  /\ UNCHANGED <<secret, starts, jwts, verdict>>
  /\ UNCHANGED <<dbvars, shvars>>

\* the process is stopped and started with JWT_SECRET = key in its environment
Restart(key) ==
  /\ verdict.script = "none"
  /\ starts < MaxRestarts
  /\ secret' = key
  /\ starts' = starts + 1
  /\ UNCHANGED <<now, jwts, verdict>>
  /\ UNCHANGED <<dbvars, shvars>>

\* what the scripts read from stdin: a response with data.loginMember.jwtToken
\* (a signed token as issued, an edited one, or some other string), or one
\* without it
ScriptInputs ==
  {[found |-> TRUE, jwt |-> j] :
     j \in jwts \cup UNION {Altered(k) : k \in jwts} \cup {Malformed}}
  \cup {[found |-> FALSE, jwt |-> Malformed]}

\* the verify script: verify(token, JWT_SECRET); the payload goes to stdout,
\* a thrown error to stderr with exit status 1
VerifyScript(input) ==
  /\ verdict.script = "none"
  /\ verdict' = IF ~input.found
                THEN Verdict("verify", input.jwt, Thrown(NoTokenFound))
                ELSE Verdict("verify", input.jwt, verify(input.jwt, secret, now))
  /\ UNCHANGED <<secret, starts, now, jwts>>
  /\ UNCHANGED <<dbvars, shvars>>

\* the decode script: decode(token), no signature verification
DecodeScript(input) ==
  /\ verdict.script = "none"
  /\ verdict' = IF ~input.found
                THEN Verdict("decode", input.jwt, Thrown(NoTokenFound))
                ELSE Verdict("decode", input.jwt, decode(input.jwt))
  /\ UNCHANGED <<secret, starts, now, jwts>>
  /\ UNCHANGED <<dbvars, shvars>>

\* the script process ends
ScriptExit ==
  /\ verdict.script # "none"
  /\ verdict' = NoVerdict
  /\ UNCHANGED <<secret, starts, now, jwts>>
  /\ UNCHANGED <<dbvars, shvars>>

NextToken ==
  \/ \E tok \in SignPayloads, lifetime \in Lifetimes : ServerSign(tok, lifetime)
  \/ GenToken
  \/ Tick
  \/ \E key \in Secrets : Restart(key)
  \/ \E input \in ScriptInputs : VerifyScript(input)
  \/ \E input \in ScriptInputs : DecodeScript(input)
  \/ ScriptExit

SpecToken == Init /\ [][NextToken]_vars

\* ------------------------------------------------- running the scripts
\* ./migrate.sh [MODE]
MigrateSh(argv, env) ==
  /\ out.script = "none" /\ rr.pc = "idle"
  /\ out' = [NoOutput EXCEPT !.script = "migrate.sh", !.argv = argv, !.env = env,
                             !.config = CONFIG(FirstArg(argv), env.GITHUB_ACTIONS)]
  /\ UNCHANGED <<cluster, rr>>
  /\ UNCHANGED <<dbvars, jwtvars>>

\* ./run-postgraphile.sh [args]
RunPostgraphileSh(argv, env) ==
  /\ out.script = "none" /\ rr.pc = "idle"
  /\ out' = [NoOutput EXCEPT
               !.script = "run-postgraphile.sh", !.argv = argv, !.env = env,
               !.mode = IF USE_NEON(argv) = 1 THEN "neon" ELSE "local",
               !.conn = IF USE_NEON(argv) = 1 THEN buildNeonConnectionString(env)
                        ELSE buildLocalConnectionString(env),
               !.graphiql = GRAPHIQL_OPTION(argv),
               !.positional = POSITIONAL_ARGS(argv)]
  /\ UNCHANGED <<cluster, rr>>
  /\ UNCHANGED <<dbvars, jwtvars>>

\* the script process ends
ShExit ==
  /\ out.script # "none"
  /\ out' = NoOutput
  /\ UNCHANGED <<cluster, rr>>
  /\ UNCHANGED <<dbvars, jwtvars>>

\* ./remove-recreate-db.sh [MODE]: step 1
RecreateStart(argv, env) ==
  /\ out.script = "none" /\ rr.pc = "idle" /\ rr.runs < MaxRuns
  /\ LET mode == DetermineMode(FirstArg(argv), env)
     IN rr' = [rr EXCEPT !.pc = IF mode = "error" THEN "failed" ELSE "do_drop_db",
                         !.mode = mode, !.env = env]
  /\ UNCHANGED <<out, cluster>>
  /\ UNCHANGED <<dbvars, jwtvars>>

\* one function of the main sequence: on success the next one follows, on a
\* failing statement the script exits
RunStep(step, next, result) ==
  /\ rr.pc = step
  /\ cluster' = result.c
  /\ rr' = [rr EXCEPT !.pc = IF result.ok THEN next ELSE "failed"]
  /\ UNCHANGED out
  /\ UNCHANGED <<dbvars, jwtvars>>

DropDb == RunStep("do_drop_db", "do_drop_shadow_db", do_drop_db(cluster, rr.mode, rr.env))
DropShadowDb ==
  RunStep("do_drop_shadow_db", "do_local_reassign", do_drop_shadow_db(cluster, rr.mode, rr.env))
LocalReassign ==
  RunStep("do_local_reassign", "do_drop_roles", do_local_reassign(cluster, rr.mode, rr.env))
DropRoles ==
  RunStep("do_drop_roles", "do_create_migrator_role", do_drop_roles(cluster, rr.mode, rr.env))
CreateMigratorRole ==
  RunStep("do_create_migrator_role", "do_create_db",
          IF rr.mode = "neon" THEN do_create_migrator_role_neon(cluster, rr.mode, rr.env)
          ELSE do_create_migrator_role_local(cluster, rr.mode, rr.env))
CreateDb ==
  RunStep("do_create_db", "do_create_app_user",
          IF rr.mode = "neon" THEN do_create_db_owned_by_neon_admin(cluster, rr.mode, rr.env)
          ELSE do_create_db_owned_by_migrator(cluster, rr.mode, rr.env))
CreateAppUser ==
  RunStep("do_create_app_user", "do_create_auth_user", do_create_app_user(cluster, rr.mode, rr.env))
CreateAuthUser ==
  RunStep("do_create_auth_user", "do_grant_min_privs_to_app_user",
          do_create_auth_user(cluster, rr.mode, rr.env))
GrantMinPrivs ==
  RunStep("do_grant_min_privs_to_app_user", "do_grant_appuser_to_authuser",
          do_grant_min_privs_to_app_user(cluster, rr.mode, rr.env))
GrantAppUserToAuthUser ==
  RunStep("do_grant_appuser_to_authuser", "do_verify",
          do_grant_appuser_to_authuser(cluster, rr.mode, rr.env))
Verify ==
  RunStep("do_verify", "do_create_shadow_db", do_verify(cluster, rr.mode, rr.env))
CreateShadowDb ==
  RunStep("do_create_shadow_db", "done", do_create_shadow_db(cluster, rr.mode, rr.env))

\* the script has exited, with status 0 ("done") or not ("failed")
RecreateExit ==
  /\ rr.pc \in {"done", "failed"}
  /\ rr' = [pc |-> "idle", mode |-> "none", env |-> UnsetEnv, runs |-> rr.runs + 1,
            prev |-> IF rr.pc = "done" THEN [mode |-> rr.mode, cluster |-> cluster]
                     ELSE NoRun]
  /\ UNCHANGED <<out, cluster>>
  /\ UNCHANGED <<dbvars, jwtvars>>

NextScripts ==
  \/ \E argv \in MigrateArgvs, env \in MigrateEnvs : MigrateSh(argv, env)
  \/ \E argv \in PostgraphileArgvs, env \in PostgraphileEnvs : RunPostgraphileSh(argv, env)
  \/ ShExit
  \/ \E argv \in RecreateArgvs, env \in RecreateEnvs : RecreateStart(argv, env)
  \/ DropDb
  \/ DropShadowDb
  \/ LocalReassign
  \/ DropRoles
  \/ CreateMigratorRole
  \/ CreateDb
  \/ CreateAppUser
  \/ CreateAuthUser
  \/ GrantMinPrivs
  \/ GrantAppUserToAuthUser
  \/ Verify
  \/ CreateShadowDb
  \/ RecreateExit

SpecScripts == Init /\ [][NextScripts]_vars

\* ================================================================== claims
MemberTokens == {t \in tokens : t.role = "member"}
AdminTokens == {t \in tokens : t.role = "admin"}
AllIds == {r.id : r \in members}

\* C1: a request with a member-role capability for subject A reads and updates
\* the row with id = A, and neither reads nor updates a row with another id.
C1_MemberRowIsolation ==
  /\ \A t \in MemberTokens : \A r \in members :
       /\ SelectVisible(Claims(t), r) <=> r.id = t.member_id
       /\ r \in UpdateRows(Claims(t), r.id) <=> r.id = t.member_id
       /\ r.id = t.member_id => UpdateWithCheck(Claims(t), r)
  /\ (last.op = "select" /\ last.auth /\ last.role = "member")
       => last.ids = AllIds \cap {last.member_id}
  /\ (last.op = "update" /\ last.auth /\ last.role = "member")
       => /\ last.ids \subseteq {last.member_id}
          /\ last.target # last.member_id => (last.ids = {} /\ last.err = NoError)

\* a member has updated its own row while another row exists
C1_Witness ==
  /\ last.op = "update" /\ last.auth /\ last.role = "member"
  /\ last.target = last.member_id /\ last.ids = {last.member_id}
  /\ \E r \in members : r.id # last.member_id

\* C2: a request with an admin-role capability reads and updates every row,
\* whatever the row's id and whoever the capability's subject is.
C2_AdminAllRows ==
  /\ \A t \in AdminTokens : \A r \in members :
       /\ SelectVisible(Claims(t), r)
       /\ r \in UpdateRows(Claims(t), r.id)
       /\ UpdateWithCheck(Claims(t), r)
  /\ (last.op = "select" /\ last.auth /\ last.role = "admin") => last.ids = AllIds
  /\ (last.op = "update" /\ last.auth /\ last.role = "admin")
       => /\ last.err # RlsViolation
          /\ (last.ids = {} /\ last.err = NoError) => last.target \notin AllIds

\* an admin has updated the row of another subject
C2_Witness ==
  /\ last.op = "update" /\ last.auth /\ last.role = "admin"
  /\ last.target # last.member_id /\ last.ids = {last.target}

DuplicateEmail == {EmailExists, EmailKeyViolation}

C4_OneRegistrationPerEmail ==
  /\ \A r1, r2 \in members : r1.email = r2.email => r1 = r2
  /\ (last.op = "register" /\ last.err # NoError /\ last.password # NULL)
       => last.err \in DuplicateEmail

\* a call passed the existence check and lost the race at the INSERT
C4_Witness ==
  /\ last.op = "register" /\ last.err = EmailKeyViolation
  /\ \E r \in members : r.email = last.email /\ r.id > 1

\* C5: no two rows have the same email, and a statement refused for a
\* duplicate email leaves the table as it was.
UniqueEmails == \A r1, r2 \in members : r1.email = r2.email => r1.id = r2.id

C5_EmailUnique ==
  /\ []UniqueEmails
  /\ [][(last' # last /\ last'.err \in DuplicateEmail) => members' = members]_vars

\* an UPDATE that would have given a second row an email in use was refused
C5_Witness ==
  /\ last.op = "update" /\ last.err = EmailKeyViolation
  /\ last.target \in AllIds

\* C6: logging in with the email and password a registration just used
\* succeeds and names the new row's id, and a login succeeds only when the
\* supplied password verifies against the stored hash of the row with that
\* email.
Verifies(password, hash) == password # NULL /\ crypt(password, hash) = hash

C6_LoginIffPasswordVerifies ==
  /\ (last.op = "register" /\ last.err = NoError)
       => LET r == login_member(last.email, last.password)
          IN r.err = NoError /\ r.token.member_id = last.token.member_id
  /\ (last.op = "login" /\ last.err = NoError)
       => \E r \in members : /\ r.email = last.email
                             /\ r.id = last.token.member_id
                             /\ Verifies(last.password, r.password_hash)

\* C7: a failed login reports the same error whether the email is unknown or
\* the password is wrong.
C7_OneLoginError ==
  (last.op = "login" /\ last.err # NoError)
    => \A e \in Emails, pw \in LoginPasswords :
         login_member(e, pw).err # NoError => login_member(e, pw).err = last.err

\* C8: the capability a successful login returns names the row with the given
\* email and carries role admin exactly when that row's is_admin is true at
\* that moment, role member otherwise.
C8_LoginRoleFollowsFlag ==
  (last.op = "login" /\ last.err = NoError)
    => \E r \in members :
         /\ r.email = last.email /\ r.id = last.token.member_id
         /\ last.token.role = (IF r.is_admin THEN "admin" ELSE "member")
         /\ last.token \in tokens

\* an account created by register_member and promoted since logs in as admin
C8_Witness ==
  /\ last.op = "login" /\ last.err = NoError
  /\ last.token.role = "admin" /\ last.token.member_id > 1

\* C9: an issued capability stays as issued, and what it may read and update
\* follows from the role in it, not from the is_admin flag its subject's row
\* has now.
RoleAllows(t, r) ==
  t.role = "admin" \/ (t.role = "member" /\ r.id = t.member_id)

RoleInTokenDecides ==
  /\ \A t \in tokens : \A r \in members :
       /\ SelectVisible(Claims(t), r) <=> RoleAllows(t, r)
       /\ UpdateUsing(Claims(t), r) <=> RoleAllows(t, r)
  /\ (last.op = "select" /\ last.auth)
       => last.ids = {r.id : r \in {m \in members :
                        RoleAllows(jwt_token(last.member_id, last.role), m)}}

C9_RoleFixedAtIssuance ==
  /\ []RoleInTokenDecides
  /\ [][tokens \subseteq tokens']_vars

\* a capability issued to an admin still reads every row after its subject's
\* row lost the admin flag
C9_Witness ==
  /\ last.op = "select" /\ last.auth /\ last.role = "admin"
  /\ \E r \in members : r.id = last.member_id /\ ~r.is_admin
  /\ last.ids = AllIds /\ Cardinality(AllIds) >= 2

\* C10: the INSERT of a register_member call that gave all four fields and
\* whose email no row has adds exactly one row with the given names and
\* email, a hash that verifies the password and is not the password,
\* is_admin = false, and returns role member with the new row's id.
RegisterAddsRow(p) ==
  \E row \in members' :
    /\ row \notin members /\ members' = members \cup {row}
    /\ row.first_name = args[p].first_name
    /\ row.last_name = args[p].last_name
    /\ row.email = args[p].email
    /\ Verifies(args[p].password, row.password_hash)
    /\ row.password_hash # PlainText(args[p].password)
    /\ ~row.is_admin
    /\ last'.err = NoError
    /\ last'.token = jwt_token(row.id, "member")

C10_RegisterFreshEmail ==
  [][\A p \in Sessions :
       (/\ pc[p] = "insert" /\ pc'[p] = "idle"
        /\ args[p].password # NULL /\ ~EmailTaken(args[p].email))
         => RegisterAddsRow(p)]_vars

\* C11: a register_member call whose email a row already has ends at the
\* existence check with the duplicate-email error, returns no jwt_token and
\* changes neither the table nor the sequence; only a call whose email no row
\* has goes on to the INSERT.
EmailBelongs(e) == \E r \in members : r.email = e

C11_RegisterDuplicateEmail ==
  [][/\ \A p \in Sessions :
          (pc[p] = "idle" /\ pc'[p] = "insert") => ~EmailBelongs(args'[p].email)
     /\ (last.op = "none" /\ last'.op = "register" /\ pc' = pc)
          => /\ EmailBelongs(last'.email)
             /\ last'.err \in DuplicateEmail
             /\ last'.token = NoToken
             /\ members' = members /\ tokens' = tokens /\ seq' = seq]_vars

\* a call with the email of a registered member has been refused
C11_Witness ==
  /\ last.op = "register" /\ last.err = EmailExists /\ last.token = NoToken
  /\ \E r \in members : r.email = last.email /\ r.id > 1

\* C12: a register_member call either adds one row and returns the jwt_token
\* of that row, or adds no row and returns no jwt_token; until it has ended
\* it has written nothing.
RegisterCommitted ==
  /\ last'.err = NoError
  /\ \E row \in members' :
       /\ row \notin members /\ members' = members \cup {row}
       /\ last'.token = jwt_token(row.id, "member")
       /\ tokens' = tokens \cup {last'.token}

RegisterNothing ==
  /\ last'.err # NoError /\ last'.token = NoToken
  /\ members' = members /\ tokens' = tokens

C12_RegisterAllOrNothing ==
  [][/\ (last.op = "none" /\ last'.op = "register")
          => (RegisterCommitted \/ RegisterNothing)
     /\ (\E p \in Sessions : pc[p] = "idle" /\ pc'[p] = "insert")
          => (members' = members /\ tokens' = tokens)]_vars

\* an INSERT of register_member was refused: no row, no jwt_token
C12_Witness ==
  /\ last.op = "register" /\ last.token = NoToken
  /\ last.err \in {NotNullViolation, PkeyViolation, EmailKeyViolation}
  /\ seq > Cardinality(members) + 1

\* C13: the table starts empty and every row in it was added by a
\* register_member call that succeeded; no other statement adds a row.
RowsAdded == {r \in members' : \A q \in members : q.id # r.id}

C13_OnlyRegisterCreates ==
  /\ members = {}
  /\ [][RowsAdded # {} => (last'.op = "register" /\ last'.err = NoError)]_vars

\* C14: no request removes a row: along every execution the set of the ids
\* of the rows never loses an element.
C14_IdsNeverRemoved == [][AllIds \subseteq AllIds']_vars

\* C15: a token signed for a subject and a role under the process's key
\* verifies to that subject and role while it has not expired, and fails to
\* verify once its lifetime has elapsed or when its payload was edited.
Expired(jwt, t) == jwt.payload.exp # NoExp /\ t >= jwt.payload.exp

RoundTrip(tok, lifetime, t0) ==
  LET jwt == sign(tok.member_id, tok.role, secret, t0, lifetime)
      r == verify(jwt, secret, now)
  IN /\ now < t0 + lifetime \/ lifetime = NoExp
          => /\ r.ok
             /\ r.payload.member_id = tok.member_id /\ r.payload.role = tok.role
     /\ (lifetime # NoExp /\ now >= t0 + lifetime) => ~r.ok
     /\ \A a \in Altered(jwt) : ~verify(a, secret, now).ok

C15_TokenRoundTrip ==
  /\ \A tok \in SignPayloads, lifetime \in Lifetimes, t0 \in 1..now :
       RoundTrip(tok, lifetime, t0)
  /\ (verdict.script = "verify" /\ verdict.jwt \in jwts /\ verdict.jwt.sig.key = secret)
       => IF Expired(verdict.jwt, now)
          THEN verdict.exit = 1 /\ verdict.payload = NoPayload
          ELSE verdict.exit = 0 /\ verdict.payload = verdict.jwt.payload
  /\ (verdict.script = "verify" /\ \E j \in jwts : verdict.jwt \in Altered(j))
       => verdict.exit = 1 /\ verdict.payload = NoPayload

\* a token issued under the current key was verified after its lifetime and
\* refused
C15_Witness ==
  /\ verdict.script = "verify" /\ verdict.jwt \in jwts
  /\ verdict.jwt.sig.key = secret /\ Expired(verdict.jwt, now)
  /\ verdict.exit = 1

\* C16: the verify script either prints the payload of a correctly signed,
\* unexpired token, or fails in one and the same way, showing no payload,
\* whether the token has a bad signature, is expired or is not a token.
VerifyFailures ==
  {verify(i.jwt, secret, now).err :
     i \in {x \in ScriptInputs : x.found /\ ~verify(x.jwt, secret, now).ok}}
  \cup {NoTokenFound}

C16_SingleInvalidOutcome ==
  verdict.script = "verify"
    => \/ /\ verdict.exit = 0
          /\ verdict.payload = verdict.jwt.payload
          /\ verdict.jwt.sig = HS256(secret, verdict.jwt.payload)
          /\ ~Expired(verdict.jwt, now)
       \/ /\ verdict.exit = 1 /\ verdict.payload = NoPayload
          /\ VerifyFailures = {verdict.err}

\* C17: the key changes only when the process is started again, a token
\* verifies under the key it was signed with and under no other, and so a
\* token issued before the key was replaced no longer verifies.
OnlyUnderItsKey ==
  /\ \A j \in jwts : \A key \in Secrets :
       verify(j, key, now).ok => key = j.sig.key
  /\ \A j \in jwts : j.sig.key # secret => ~verify(j, secret, now).ok
  /\ (verdict.script = "verify" /\ verdict.jwt \in jwts /\ verdict.jwt.sig.key # secret)
       => verdict.exit = 1 /\ verdict.payload = NoPayload

C17_KeyFixedPerProcess ==
  /\ []OnlyUnderItsKey
  /\ [][starts' = starts => secret' = secret]_vars

\* a token issued before the restart with another key was verified and refused
C17_Witness ==
  /\ starts > 0
  /\ verdict.script = "verify" /\ verdict.jwt \in jwts
  /\ verdict.jwt.sig.key # secret /\ verdict.exit = 1

\* C18: no response of register_member, login_member, a row read or a row
\* update carries the password_hash of a row.
StoredHashes == {r.password_hash : r \in members}

C18_HashNeverReturned ==
  \A n \in last.nodes :
    "passwordHash" \in DOMAIN n => n.passwordHash \notin StoredHashes

\* C19: in every state the password_hash of every row is a result of crypt
\* and is not a password as a caller typed it, whatever register_member and
\* the updates by owners and admins have done.
C19_HashNeverPlaintext ==
  \A r \in members :
    /\ r.password_hash.alg = "bf"
    /\ \A pw \in Passwords : r.password_hash # PlainText(pw)

\* C20: no UPDATE by an owner or an admin changes the id of a row, no two
\* rows have the same id, and a jwt_token that is issued names the id of the
\* row it is issued for.
DistinctIds == \A r1, r2 \in members : r1.id = r2.id => r1 = r2

C20_IdImmutable ==
  /\ []DistinctIds
  /\ [][(last.op = "none" /\ last'.op = "update") => AllIds' = AllIds]_vars
  /\ [][\A t \in tokens' \ tokens :
          \E r \in members' : r.id = t.member_id /\ r.email = last'.email]_vars

\* C21: for a member token with subject A, a read or an UPDATE aimed at an
\* id other than A gives the same outcome, no row and no error, whether a row
\* with that id exists or not.
C21_OtherRowsInvisible ==
  /\ (last.op = "select" /\ last.auth /\ last.role = "member")
       => /\ last.err = NoError
          /\ \A n \in last.nodes : n.id = last.member_id
  /\ (last.op = "update" /\ last.auth /\ last.role = "member"
        /\ last.target # last.member_id)
       => last.err = NoError /\ last.ids = {}

\* a member's UPDATE aimed at the existing row of another subject ended as
\* "UPDATE 0", as it does for an id no row has
C21_Witness ==
  /\ last.op = "update" /\ last.auth /\ last.role = "member"
  /\ last.target # last.member_id /\ last.target \in AllIds
  /\ last.err = NoError /\ last.ids = {}

\* C22: a register_member call with an empty or missing first name, last
\* name, email or password fails with an input error, not with the
\* duplicate-email error, and leaves the table unchanged.
Incomplete(a) ==
  \E f \in {"first_name", "last_name", "email", "password"} : a[f] \in {NULL, ""}

C22_RegisterInvalidInput ==
  [][/\ \A p \in Sessions :
          (pc[p] = "insert" /\ pc'[p] = "idle" /\ Incomplete(args[p]))
            => /\ last'.err \notin DuplicateEmail \cup {NoError}
               /\ members' = members
     /\ (last.op = "none" /\ last'.op = "register" /\ last'.password \in {NULL, ""})
          => last'.err \notin DuplicateEmail \cup {NoError}]_vars

\* C23: two crypt calls on one password that drew different salts give
\* different hashes, the password verifies against both, and another password
\* verifies against neither, without an error; a login against a stored
\* bcrypt hash behaves accordingly.
SaltedHashes(pw) ==
  \A s1, s2 \in Salts :
    LET h1 == crypt(pw, gen_salt(s1))
        h2 == crypt(pw, gen_salt(s2))
    IN /\ s1 # s2 => h1 # h2
       /\ Verifies(pw, h1) /\ Verifies(pw, h2)
       /\ \A other \in Passwords \ {pw} :
            /\ crypt(other, h1) \notin {h1, h2, InvalidSalt, NullText}
            /\ ~Verifies(other, h1)

C23_SaltedHashing ==
  /\ \A pw \in Passwords : SaltedHashes(pw)
  /\ \A r \in members : r.password_hash.alg = "bf"
       => Verifies(r.password_hash.key, r.password_hash)
  /\ (last.op = "login" /\ last.password # NULL)
       => \A r \in members :
            (r.email = last.email /\ r.password_hash.alg = "bf")
              => /\ last.err \in {NoError, InvalidPassword}
                 /\ last.err = NoError <=> Verifies(last.password, r.password_hash)

\* two members registered with the same password hold different hashes, and
\* a login with another password was refused
C23_Witness ==
  /\ \E r1, r2 \in members :
       /\ r1.id > 1 /\ r2.id > 1
       /\ r1.password_hash.alg = "bf" /\ r2.password_hash.alg = "bf"
       /\ r1.password_hash.key = r2.password_hash.key
       /\ r1.password_hash # r2.password_hash
  /\ last.op = "login" /\ last.password # NULL /\ last.err = InvalidPassword

\* C24: migrate.sh runs Graphile Migrate with .gmrc.neon.js for the argument
\* 'neon', .gmrc.gha for 'gha', .gmrc for 'local', and without an argument
\* with .gmrc.gha when GITHUB_ACTIONS is 'true' and .gmrc otherwise.
C24_MigrateConfig ==
  out.script = "migrate.sh" =>
    /\ FirstArg(out.argv) = "neon" => out.config = ".gmrc.neon.js"
    /\ FirstArg(out.argv) = "gha" => out.config = ".gmrc.gha"
    /\ FirstArg(out.argv) = "local" => out.config = ".gmrc"
    /\ (out.argv = <<>> /\ out.env.GITHUB_ACTIONS = "true") => out.config = ".gmrc.gha"
    /\ (out.argv = <<>> /\ out.env.GITHUB_ACTIONS # "true") => out.config = ".gmrc"

C24_Witness ==
  /\ out.script = "migrate.sh" /\ out.argv = <<>>
  /\ out.env.GITHUB_ACTIONS = "true" /\ out.config = ".gmrc.gha"

\* C25: run-postgraphile.sh runs in Neon mode exactly when '--use-neon' or 'neon'
\* is among its arguments and in local mode, over the Unix socket, otherwise.
NeonRequested ==
  \E i \in 1..Len(out.argv) : out.argv[i] \in {"--use-neon", "neon"}

ModeFromArguments ==
  out.script = "run-postgraphile.sh" =>
    /\ out.mode = (IF NeonRequested THEN "neon" ELSE "local")
    /\ out.mode = "local" =>
         \E i \in 1..Len(out.conn) :
           out.conn[i] = "?host=" /\ out.conn[i + 1] = "/var/run/postgresql"

NeonRun == out.script = "run-postgraphile.sh" /\ out.mode = "neon"

\* C25, as stated: in Neon mode the connection string is built from
\* NEON_USER, NEON_PASSWORD, NEON_HOST, NEON_DB and SSLMODE.
C25_NeonConnectionFromEnv ==
  /\ ModeFromArguments
  /\ NeonRun =>
       out.conn = <<"postgres://", Default(out.env.NEON_USER, "auth_user"), ":",
                    out.env.NEON_PASSWORD, "@", Default(out.env.NEON_HOST, "127.0.0.1"),
                    ":5432/", Default(out.env.NEON_DB, "coop-members"),
                    "?sslmode=", Default(out.env.SSLMODE, "require")>>

\* C25, amended: in Neon mode the connection string is built from
\* NEON_PASSWORD, NEON_HOST, NEON_DB and SSLMODE, and its user is auth_user
\* whatever NEON_USER is.
C25_NeonConnectionAsAuthUser ==
  /\ ModeFromArguments
  /\ NeonRun =>
       out.conn = <<"postgres://", "auth_user", ":",
                    out.env.NEON_PASSWORD, "@", Default(out.env.NEON_HOST, "127.0.0.1"),
                    ":5432/", Default(out.env.NEON_DB, "coop-members"),
                    "?sslmode=", Default(out.env.SSLMODE, "require")>>

\* a Neon run asked for with the bare word, NEON_USER set, connecting as auth_user
C25_Witness ==
  /\ NeonRun /\ "--use-neon" \notin {out.argv[i] : i \in 1..Len(out.argv)}
  /\ out.env.NEON_USER = "neondb_owner" /\ out.env.NEON_HOST = "ep.neon.tech"
  /\ out.conn[2] = "auth_user" /\ out.conn[6] = "ep.neon.tech"

\* C26: when remove-recreate-db.sh has finished successfully, the database
\* coop-members exists, auth_user exists with LOGIN and app_user with NOLOGIN,
\* app_user is granted to auth_user, migrator exists in local and GHA mode and
\* does not in Neon mode; a run that follows a successful run in the same mode
\* does not fail and ends in the cluster that run ended in.
RecreatedState ==
  /\ DB_NAME \in DatabaseNames(cluster)
  /\ \E r \in cluster.roles : r.name = AUTH_ROLE /\ r.login
  /\ \E r \in cluster.roles : r.name = APP_ROLE /\ ~r.login
  /\ [role |-> APP_ROLE, member |-> AUTH_ROLE] \in cluster.members
  /\ rr.mode \in {"local", "gha"} => MIGRATOR_ROLE \in RoleNames(cluster)
  /\ rr.mode = "neon" => MIGRATOR_ROLE \notin RoleNames(cluster)

C26_RecreateDb ==
  /\ rr.pc = "done" => RecreatedState
  /\ (rr.pc = "done" /\ rr.prev.mode = rr.mode) => cluster = rr.prev.cluster
  /\ (rr.pc = "failed" /\ rr.mode \in {"local", "gha", "neon"}) => rr.prev.mode # rr.mode

\* a second successful run in local mode
C26_Witness ==
  rr.pc = "done" /\ rr.mode = "local" /\ rr.prev.mode = "local" /\ rr.runs = 1

\* C27: emails are compared case-sensitively: register reports an existing
\* member only when a row holds exactly that email, so two emails that differ
\* in letter case give two rows, and login with an email that no row holds
\* exactly fails as unknown, a row with the other spelling notwithstanding.
SameButCase(e1, e2) == {e1, e2} = {"alice@example.com", "Alice@example.com"}

C27_EmailCaseSensitive ==
  /\ (last.op = "register" /\ last.err \in DuplicateEmail)
       => \E r \in members : r.email = last.email
  /\ (last.op = "register" /\ last.err = NoError)
       => \E r \in members : r.email = last.email /\ r.id \in last.ids
  /\ (last.op = "login" /\ ~\E r \in members : r.email = last.email)
       => last.err = NoMemberFound

\* the second spelling was registered beside the first
C27_Witness ==
  /\ last.op = "register" /\ last.err = NoError
  /\ \E r1, r2 \in members :
       /\ SameButCase(r1.email, r2.email)
       /\ r2.email = last.email /\ r2.id \in last.ids /\ r1.id < r2.id

\* C28: a row's is_admin goes from false to true only in an update made with
\* an admin token; no request with a member token does it, on its own row
\* or another.
C28_NoSelfPromotion ==
  [][\A old \in members : \A new \in members' :
       (old.id = new.id /\ ~old.is_admin /\ new.is_admin)
         => (last'.op = "update" /\ last'.auth /\ last'.role = "admin")]_vars

\* C30: a login, successful or failed, leaves every row of members as it was
\* and adds none.
C30_LoginReadsOnly ==
  [][(last.op = "none" /\ last'.op = "login") => (members' = members /\ seq' = seq)]_vars

\* a successful login has been answered
C30_Witness ==
  last.op = "login" /\ last.err = NoError /\ last.password # NULL /\ Cardinality(members) > 1

\* C29: every signed token that verifies under the server's key carries a
\* jwt_token that register_member or login_member returned and the server
\* signed.
C29_ValidTokensWereIssued ==
  \A j \in jwts :
    verify(j, secret, now).ok
      => jwt_token(j.payload.member_id, j.payload.role) \in SignPayloads

====
